---------------------------- MODULE Spec2Model ----------------------------
(***************************************************************************)
(* A model of data_drift_detector.DataDriftDetector: construction          *)
(* (__init__), calculate_drift and compare_ml_efficacy with its helpers    *)
(* _ml_data_prep, _build_*, _eval_*.                                       *)
(*                                                                         *)
(* Values.  A dataframe cell is a record [k, s, n]: k is the Python type   *)
(* of the cell ("str", "int", "float", "bool"), s its text when it is a    *)
(* string, n its number otherwise.  A float is held in thousandths         *)
(* (1.0 is n = 1000), so that quotients stay integers.                     *)
(***************************************************************************)
EXTENDS Integers, Sequences, FiniteSets, TLC

VARIABLES
    args,   \* what the caller passed to DataDriftDetector(...)
    det,    \* the detector instance: <<>> before/without one, else <<fields>>
    out,    \* outcome of the latest operation (value returned or exception)
    call    \* the latest compare_ml_efficacy call: <<>>, or <<its arguments and how far it got>>

vars == <<args, det, out, call>>

-----------------------------------------------------------------------------
(* Bounds of the model *)

MaxRows == 2        \* rows of a dataset given to calculate_drift
MaxCols == 2        \* columns of a dataset given to the constructor
MaxMLRows == 3      \* rows of the datasets given to compare_ml_efficacy
MaxCalls == 2       \* calls of compare_ml_efficacy on one detector

(* Program constants *)

STEPS == 100        \* calculate_drift: points sampled from each KDE
DefaultCutoff == 5  \* compare_ml_efficacy: OHE_columns_cutoff=5

-----------------------------------------------------------------------------
(* Generic helpers *)

Range(s) == {s[i] : i \in 1..Len(s)}

Contains(s, x) == \E i \in 1..Len(s) : s[i] = x

\* A function over 1..n as an explicit tuple (every element evaluated once).
Tuple(f) == f \o <<>>

\* s[lo] + ... + s[hi], summed by halves
RECURSIVE SumBetween(_, _, _)
SumBetween(s, lo, hi) ==
    IF lo > hi THEN 0
    ELSE IF lo = hi THEN s[lo]
    ELSE SumBetween(s, lo, (lo + hi) \div 2) + SumBetween(s, (lo + hi) \div 2 + 1, hi)

SumTo(s, i) == SumBetween(s, 1, i)

SumSeq(s) == SumTo(s, Len(s))

RECURSIVE FlattenSeq(_)
FlattenSeq(ss) == IF ss = <<>> THEN <<>> ELSE Head(ss) \o FlattenSeq(Tail(ss))

Min2(a, b) == IF a <= b THEN a ELSE b
Max2(a, b) == IF a >= b THEN a ELSE b

RECURSIVE MinSeq(_)
MinSeq(s) == IF Len(s) = 1 THEN s[1] ELSE Min2(Head(s), MinSeq(Tail(s)))

RECURSIVE MaxSeq(_)
MaxSeq(s) == IF Len(s) = 1 THEN s[1] ELSE Max2(Head(s), MaxSeq(Tail(s)))

\* All orderings of the index set 1..n, as sequences.
RECURSIVE PermsOf(_)
PermsOf(S) ==
    IF S = {} THEN {<<>>}
    ELSE UNION {{<<x>> \o p : p \in PermsOf(S \ {x})} : x \in S}

-----------------------------------------------------------------------------
(* Python values and their conversions *)

StrV(s)   == [k |-> "str",   s |-> s,  n |-> 0]
IntV(n)   == [k |-> "int",   s |-> "", n |-> n]
FloatV(m) == [k |-> "float", s |-> "", n |-> m]      \* m in thousandths
BoolV(b)  == [k |-> "bool",  s |-> "", n |-> b]      \* b is 0 or 1

Digits == <<"0", "1", "2", "3", "4", "5", "6", "7", "8", "9">>

\* str(v), as DataFrame.astype(str) applies it to each cell.
PyStr(v) ==
    CASE v.k = "str"   -> v.s
      [] v.k = "int"   -> Digits[v.n + 1]
      [] v.k = "float" -> Digits[(v.n \div 1000) + 1] \o ".0"
      [] v.k = "bool"  -> IF v.n = 1 THEN "True" ELSE "False"

\* float(v), as DataFrame.astype(float) applies it to each cell: <<x>>, or <<>>
\* where Python raises ValueError (a string that is no number).
PyFloat(v) ==
    CASE v.k = "int"   -> <<v.n * 1000>>
      [] v.k = "bool"  -> <<v.n * 1000>>
      [] v.k = "float" -> <<v.n>>
      [] v.k = "str"   ->
            IF \E d \in 1..10 : v.s = Digits[d] \/ v.s = Digits[d] \o ".0"
            THEN <<1000 * ((CHOOSE d \in 1..10 :
                               v.s = Digits[d] \/ v.s = Digits[d] \o ".0") - 1)>>
            ELSE <<>>

\* The strings of the model in Python's (lexicographic) order: what a sorted
\* pandas index of strings comes out as.
StrOrder ==
    <<"0", "0.0", "1", "1.0", "2", "2.0", "3", "3.0", "4", "4.0",
      "False", "True", "a", "b", "c", "d">>

StrRank(s) == CHOOSE i \in 1..Len(StrOrder) : StrOrder[i] = s

\* The order pandas sorts cells in (group keys, dummy columns): strings by
\* text, numbers by value.
ValRank(v) == IF v.k = "str" THEN StrRank(v.s) ELSE v.n

\* The distinct values of a set of cells (of one kind), sorted ascending.
RECURSIVE SortedVals(_)
SortedVals(S) ==
    IF S = {} THEN <<>>
    ELSE LET m == CHOOSE x \in S : \A y \in S : ValRank(x) <= ValRank(y)
         IN  <<m>> \o SortedVals(S \ {m})

-----------------------------------------------------------------------------
(* Dataframes: [columns: sequence of names, dtypes: sequence aligned with     *)
(* columns, rows: sequence of functions column -> value].                    *)

Frame(cols, dtypes, rows) == [columns |-> cols, dtypes |-> dtypes, rows |-> rows]

ColIndex(df, c) == CHOOSE i \in 1..Len(df.columns) : df.columns[i] = c

DtypeOf(df, c) == df.dtypes[ColIndex(df, c)]

Column(df, c) == Tuple([i \in 1..Len(df.rows) |-> df.rows[i][c]])

\* df[cols] = df[cols].astype(str)
AstypeStr(df, cols) ==
    [df EXCEPT
        !.dtypes = [i \in 1..Len(df.columns) |->
                        IF Contains(cols, df.columns[i]) THEN "object" ELSE @[i]],
        !.rows = [i \in 1..Len(df.rows) |->
                    [c \in DOMAIN df.rows[i] |->
                        IF Contains(cols, c) THEN StrV(PyStr(df.rows[i][c]))
                        ELSE df.rows[i][c]]]]

\* Whether df[cols].astype(float) converts every cell.
CanFloat(df, cols) ==
    \A i \in 1..Len(df.rows) : \A j \in 1..Len(cols) :
        PyFloat(df.rows[i][cols[j]]) # <<>>

\* df[cols] = df[cols].astype(float), where CanFloat(df, cols)
AstypeFloat(df, cols) ==
    [df EXCEPT
        !.dtypes = [i \in 1..Len(df.columns) |->
                        IF Contains(cols, df.columns[i]) THEN "float64" ELSE @[i]],
        !.rows = [i \in 1..Len(df.rows) |->
                    [c \in DOMAIN df.rows[i] |->
                        IF Contains(cols, c) THEN FloatV(PyFloat(df.rows[i][c])[1])
                        ELSE df.rows[i][c]]]]

HasColumns(df, cols) == \A j \in 1..Len(cols) : Contains(df.columns, cols[j])

-----------------------------------------------------------------------------
(* An argument that is None, a list, or something else (a str, a tuple). *)

None == [kind |-> "none", items |-> <<>>]
List(s) == [kind |-> "list", items |-> s]
NotAList == [kind |-> "other", items |-> <<>>]

\* Outcomes: an operation returns a value or raises.
Raise(op, exc, why) == [op |-> op, status |-> "raise", exc |-> exc, why |-> why]

-----------------------------------------------------------------------------
(* Objects.  A dataframe a name is bound to is [ref, frame]: ref is the set   *)
(* of holders of the object outside the running method ("caller.df_prior",    *)
(* "self.df_post", ...; empty for an object made in the running method),      *)
(* frame is its content.  An assignment into a dataframe changes the object   *)
(* it is made on, whoever else holds it.                                      *)

Obj(ref, frame) == [ref |-> {ref}, frame |-> frame]

\* holder = obj: the object gets one more holder.
Bound(obj, holder) == [obj EXCEPT !.ref = @ \cup {holder}]

\* Binding a name to the object itself, without copying it.
SameObject(obj) == obj

\* copy.deepcopy(obj): a new object with the same content.
deepcopy(obj) == [ref |-> {}, frame |-> obj.frame]

\* obj[col].to_frame(): a new dataframe around the column.
to_frame(obj, col) ==
    [ref |-> {},
     frame |-> [columns |-> <<col>>,
                dtypes |-> <<obj.frame.dtypes[CHOOSE i \in 1..Len(obj.frame.columns) :
                                                obj.frame.columns[i] = col]>>,
                rows |-> [i \in 1..Len(obj.frame.rows) |->
                            [c \in {col} |-> obj.frame.rows[i][c]]] \o <<>>]]

\* The content of the object held by ref, after the running method has left
\* the object obj with the content it has now.
StoreBack(frame, ref, obj) == IF ref \in obj.ref THEN obj.frame ELSE frame

-----------------------------------------------------------------------------
(* DataDriftDetector.__init__ *)

num_types == {"float64", "float32", "int32", "int64", "uint8"}

\* The instance attributes compare_ml_efficacy and its helpers assign; none
\* exists after construction.
NoMLState ==
    [config |-> <<>>, OHE_columns |-> <<>>, high_cardinality_columns |-> <<>>,
     test_data |-> <<>>, matrices |-> <<>>, models |-> <<>>, ml_report |-> <<>>]

InferCategorical(df) ==
    SelectSeq(df.columns, LAMBDA c : DtypeOf(df, c) = "object")

InferNumeric(df) ==
    SelectSeq(df.columns, LAMBDA c : DtypeOf(df, c) \in num_types)

\* The caller's two dataframes as the constructor leaves them, when its
\* working objects df_prior_ and df_post_ have come to hold prior and post.
InputsLeft(df_prior, df_post, prior, post) ==
    [df_prior |-> StoreBack(df_prior, "caller.df_prior",
                            [deepcopy(Obj("caller.df_prior", df_prior))
                                EXCEPT !.frame = prior]),
     df_post |-> StoreBack(df_post, "caller.df_post",
                           [deepcopy(Obj("caller.df_post", df_post))
                                EXCEPT !.frame = post])]

\* The constructor: [exc, why, self, inputs], self = <<instance>> when it
\* returns, inputs the caller's dataframes after the call.
Construct(df_prior, df_post, categorical_columns, numeric_columns) ==
    LET fail(exc, why) ==
            [exc |-> exc, why |-> why, self |-> <<>>,
             inputs |-> [df_prior |-> df_prior, df_post |-> df_post]]
    IN
    \* pandas compares two Index objects element by element and refuses
    \* operands of different lengths, before assert sees a result
    IF Len(df_prior.columns) # Len(df_post.columns)
    THEN fail("ValueError", "Lengths must match to compare")
    ELSE IF df_prior.columns # df_post.columns
    THEN fail("AssertionError", "same column names")
    ELSE IF df_prior.dtypes # df_post.dtypes
    THEN fail("AssertionError", "same column types")
    ELSE IF categorical_columns.kind = "other"
    THEN fail("AssertionError", "categorical_columns should be of type list")
    ELSE IF numeric_columns.kind = "other"
    THEN fail("AssertionError", "numeric_columns should be of type list")
    ELSE
    LET cats == IF categorical_columns.kind = "none"
                THEN InferCategorical(df_prior)
                ELSE categorical_columns.items
    IN
    IF ~HasColumns(df_prior, cats) THEN fail("KeyError", "categorical_columns")
    ELSE
    LET prior1 == AstypeStr(df_prior, cats)
        post1  == AstypeStr(df_post, cats)
        nums == IF numeric_columns.kind = "none"
                THEN InferNumeric(prior1)
                ELSE numeric_columns.items
    IN
    IF ~HasColumns(prior1, nums)
    THEN [exc |-> "KeyError", why |-> "numeric_columns", self |-> <<>>,
          inputs |-> InputsLeft(df_prior, df_post, prior1, post1)]
    ELSE IF ~(CanFloat(prior1, nums) /\ CanFloat(post1, nums))
    THEN [exc |-> "ValueError", why |-> "could not convert string to float",
          self |-> <<>>,
          inputs |-> InputsLeft(df_prior, df_post, prior1, post1)]
    ELSE [exc |-> "", why |-> "",
          self |-> <<[categorical_columns |-> cats,
                      numeric_columns |-> nums,
                      df_prior |-> AstypeFloat(prior1, nums),
                      df_post |-> AstypeFloat(post1, nums),
                      ml |-> NoMLState]>>,
          inputs |-> InputsLeft(df_prior, df_post, AstypeFloat(prior1, nums),
                                AstypeFloat(post1, nums))]

-----------------------------------------------------------------------------
(* scipy.spatial.distance.jensenshannon and scipy.stats.gaussian_kde, in      *)
(* fixed-point arithmetic.  A probability is a record [num, den].              *)

Rat(a, b) == [num |-> a, den |-> b]

\* 1000 * ln(n), rounded, for n in 1..64
LnTab ==
    <<0, 693, 1099, 1386, 1609, 1792, 1946, 2079, 2197, 2303, 2398, 2485,
      2565, 2639, 2708, 2773, 2833, 2890, 2944, 2996, 3045, 3091, 3135, 3178,
      3219, 3258, 3296, 3332, 3367, 3401, 3434, 3466, 3497, 3526, 3555, 3584,
      3611, 3638, 3664, 3689, 3714, 3738, 3761, 3784, 3807, 3829, 3850, 3871,
      3892, 3912, 3932, 3951, 3970, 3989, 4007, 4025, 4043, 4060, 4078, 4094,
      4111, 4127, 4143, 4159>>

\* 1000 * ln(n) for n >= 1
RECURSIVE Ln(_)
Ln(n) == IF n <= 64 THEN LnTab[n] ELSE 693 + Ln(n \div 2)

\* floor(sqrt(n)) for 0 <= n < 2^20, by bisection: lo^2 <= n < hi^2
RECURSIVE SqrtBetween(_, _, _)
SqrtBetween(n, lo, hi) ==
    IF hi - lo <= 1 THEN lo
    ELSE LET mid == (lo + hi) \div 2
         IN  IF mid * mid <= n THEN SqrtBetween(n, mid, hi)
             ELSE SqrtBetween(n, lo, mid)

ISqrt(n) == SqrtBetween(n, 0, 1024)

\* numpy's nan, where a float is expected (distances are >= 0)
NaN == 0 - 1

\* jensenshannon(p, q): p and q are normalised to sum 1, m = (p + q) / 2,
\* the result is sqrt((sum rel_entr(p, m) + sum rel_entr(q, m)) / 2), here in
\* thousandths.  2 * m = p + q is used to stay in integers.
jensenshannon(p, q) ==
    LET sp == SumSeq(Tuple([i \in 1..Len(p) |-> p[i].num]))
        sq == SumSeq(Tuple([i \in 1..Len(q) |-> q[i].num]))
        \* p / sum(p) and q / sum(q), in units of 1/100000
        pf == Tuple([i \in 1..Len(p) |-> (p[i].num * 100000) \div sp])
        qf == Tuple([i \in 1..Len(q) |-> (q[i].num * 100000) \div sq])
        left  == SumSeq(Tuple([i \in 1..Len(p) |->
                     IF pf[i] = 0 THEN 0
                     ELSE pf[i] * (Ln(2 * pf[i]) - Ln(pf[i] + qf[i]))]))
        right == SumSeq(Tuple([i \in 1..Len(q) |->
                     IF qf[i] = 0 THEN 0
                     ELSE qf[i] * (Ln(2 * qf[i]) - Ln(pf[i] + qf[i]))]))
        js == left + right
    IN  IF sp = 0 \/ sq = 0 THEN NaN        \* 0 / 0 in the normalisation
        ELSE IF js <= 0 THEN 0
        ELSE ISqrt(js \div 200)

\* 1000 * exp(-k / 8), rounded, for k in 0..64
ExpTab ==
    <<1000, 882, 779, 687, 607, 535, 472, 417, 368, 325, 287, 253, 223, 197,
      174, 153, 135, 119, 105, 93, 82, 72, 64, 56, 50, 44, 39, 34, 30, 27, 24,
      21, 18, 16, 14, 13, 11, 10, 9, 8, 7, 6, 5, 5, 4, 4, 3, 3, 2, 2, 2, 2, 2,
      1, 1, 1, 1, 1, 1, 1, 1, 0, 0, 0, 0>>

\* 1000 * n^(-2/5): the square of Scott's factor, for n in 1..8
ScottSq == <<1000, 758, 644, 574, 525, 488, 459, 435>>

\* gaussian_kde(sample): the kernel's variance (the sample's covariance times
\* the squared Scott factor), or 0 where scipy raises: a single element, or
\* a singular covariance (all values equal).  sample: floats in thousandths.
KdeVariance(sample) ==
    LET n  == Len(sample)
        s1 == SumSeq(sample)
        s2 == SumSeq(Tuple([i \in 1..n |-> sample[i] * sample[i]]))
    IN  IF n < 2 THEN 0
        ELSE (((n * s2 - s1 * s1) \div (n * (n - 1))) * ScottSq[n]) \div 1000

\* kde(x): the sum of the Gaussian kernels exp(-(x - v)^2 / (2 h2)) around the
\* sample's values (the constant in front cancels when calculate_drift
\* renormalises the samples).
KdeEval(sample, h2, x) ==
    SumSeq(Tuple([i \in 1..Len(sample) |->
        LET d == x - sample[i]
            k == (4 * d * d) \div h2
        IN  ExpTab[Min2(k, 64) + 1]]))

\* np.linspace(start, stop, num)[i], i from 0
Linspace(start, stop, num, i) == start + (i * (stop - start)) \div (num - 1)

-----------------------------------------------------------------------------
(* DataDriftDetector.calculate_drift *)

\* obj['_source'] = tag
TagSource(obj, tag) ==
    [obj EXCEPT !.frame =
        [columns |-> Append(@.columns, "_source"),
         dtypes |-> Append(@.dtypes, "object"),
         rows |-> [i \in 1..Len(@.rows) |->
                    [c \in DOMAIN @.rows[i] \cup {"_source"} |->
                        IF c = "_source"
                        THEN [k |-> "str", s |-> tag, n |-> 0]
                        ELSE @.rows[i][c]]] \o <<>>]]

PyList(items) == [type |-> "list", items |-> items]
PyDict(items) == [type |-> "dict", items |-> items]

\* An index of the categories of prior alone.
CategoriesOfPrior(self, col) ==
    SortedVals(Range(Column(self.df_prior, col)))

\* The index of the pivoted frame: the categories seen in prior or post, sorted.
Categories(self, col) ==
    SortedVals(Range(Column(self.df_prior, col)) \cup Range(Column(self.df_post, col)))

\* groupby([col, '_source']).size(): the rows of one source with one category.
\* Rows are tagged 'prior' and 'post' before the concat.
GroupSizeSkipFirst(self, col, cat, source) ==
    LET df == IF source = "prior" THEN self.df_prior ELSE self.df_post
        from == IF source = "prior" THEN 1 ELSE 2
    IN  Cardinality({i \in from..Len(df.rows) : df.rows[i][col] = cat})

GroupSize(self, col, cat, source) ==
    LET df == IF source = "prior" THEN self.df_prior ELSE self.df_post
    IN  Cardinality({i \in 1..Len(df.rows) : df.rows[i][col] = cat})

\* arr_[source]: the pivot's column of one source divided by its sum, a
\* category the source lacks (NaN in the pivot) filled with 0.
ProbabilityArray(self, col, source) ==
    LET cats == Categories(self, col)
        total == SumSeq(Tuple([i \in 1..Len(cats) |->
                             GroupSize(self, col, cats[i], source)]))
    IN  Tuple([i \in 1..Len(cats) |->
                  Rat(GroupSize(self, col, cats[i], source), total)])

CategoricalDistance(self, col) ==
    jensenshannon(ProbabilityArray(self, col, "prior"),
                  ProbabilityArray(self, col, "post"))

FloatColumn(df, col) == Tuple([i \in 1..Len(df.rows) |-> df.rows[i][col].n])

\* <<min_, max_>>: the range both KDEs are sampled over.
SampleRangePriorOnly(col_prior, col_post) ==
    <<MinSeq(col_prior), MaxSeq(col_prior)>>

SampleRange(col_prior, col_post) ==
    <<Min2(MinSeq(col_prior), MinSeq(col_post)),
      Max2(MaxSeq(col_prior), MaxSeq(col_post))>>

\* Whether gaussian_kde(df[col]) raises (see KdeVariance).
KdeFails(df, col) == KdeVariance(FloatColumn(df, col)) = 0

\* What gaussian_kde raises on a column it cannot estimate: ValueError for a
\* single sample, LinAlgError for a sample without variance.
KdeError(df, col) ==
    IF Len(df.rows) < 2 THEN "ValueError"
    ELSE IF KdeFails(df, col) THEN "LinAlgError"
    ELSE ""

\* arr_prior or arr_post: the KDE of `sample` at the STEPS points of range_,
\* divided by its sum.
SampledArray(sample, rng) ==
    LET h2 == KdeVariance(sample)
        dens == Tuple([i \in 1..STEPS |->
                    KdeEval(sample, h2, Linspace(rng[1], rng[2], STEPS, i - 1))])
        total == SumSeq(dens)
    IN  Tuple([i \in 1..STEPS |-> Rat(dens[i], total)])

NumericDistance(self, col) ==
    LET col_prior == FloatColumn(self.df_prior, col)
        col_post  == FloatColumn(self.df_post, col)
        rng == SampleRange(col_prior, col_post)
    IN  jensenshannon(SampledArray(col_prior, rng), SampledArray(col_post, rng))

\* dict.update in a loop over cols: one item per distinct key, at the place of
\* its first occurrence.
RECURSIVE DictItems(_, _, _)
DictItems(cols, D(_), seen) ==
    IF cols = <<>> THEN <<>>
    ELSE IF Head(cols) \in seen THEN DictItems(Tail(cols), D, seen)
    ELSE <<<<Head(cols), D(Head(cols))>>>>
            \o DictItems(Tail(cols), D, seen \cup {Head(cols)})

\* sorted(items, key=lambda x: x[1], reverse=True): descending, and stable
\* (items with equal keys keep their order).
RECURSIVE InsertDesc(_, _)
InsertDesc(x, s) ==
    IF s = <<>> THEN <<x>>
    ELSE IF Head(s)[2] >= x[2] THEN <<Head(s)>> \o InsertDesc(x, Tail(s))
    ELSE <<x>> \o s

RECURSIVE SortedDesc(_)
SortedDesc(items) ==
    IF items = <<>> THEN <<>>
    ELSE InsertDesc(items[Len(items)], SortedDesc(SubSeq(items, 1, Len(items) - 1)))

\* cat_res / num_res as returned: the dict it was built as when it is empty,
\* the sorted list of its items otherwise.
Ranked(items) == IF Len(items) > 0 THEN PyList(SortedDesc(items)) ELSE PyDict(<<>>)

calculate_drift(self) ==
    LET failing == SelectSeq(self.numeric_columns,
                        LAMBDA c : KdeFails(self.df_prior, c) \/ KdeFails(self.df_post, c))
        D_cat(c) == CategoricalDistance(self, c)
        D_num(c) == NumericDistance(self, c)
    IN
    IF Len(self.df_prior.rows) = 0 /\ Len(self.categorical_columns) > 0
    THEN Raise("calculate_drift", "KeyError", "prior") @@ [value |-> <<>>]
    ELSE IF Len(self.df_post.rows) = 0 /\ Len(self.categorical_columns) > 0
    THEN Raise("calculate_drift", "KeyError", "post") @@ [value |-> <<>>]
    ELSE IF failing # <<>>
    THEN Raise("calculate_drift",
               IF KdeError(self.df_prior, failing[1]) # ""
               THEN KdeError(self.df_prior, failing[1])
               ELSE KdeError(self.df_post, failing[1]),
               failing[1]) @@ [value |-> <<>>]
    ELSE [op |-> "calculate_drift", status |-> "ok", exc |-> "", why |-> "",
          value |-> <<[categorical |->
                          Ranked(DictItems(self.categorical_columns, D_cat, {})),
                       numerical |->
                          Ranked(DictItems(self.numeric_columns, D_num, {}))]>>]

\* The instance as calculate_drift leaves it: for each categorical column
\* the column is taken out as a frame of its own and tagged '_source'
\* (lines 142-145).
RECURSIVE DriftLeft(_, _)
DriftLeft(self, cols) ==
    IF cols = <<>> THEN self
    ELSE DriftLeft(
            [self EXCEPT
                !.df_prior = StoreBack(@, "self.df_prior",
                    TagSource(to_frame(Obj("self.df_prior", @), Head(cols)), "prior")),
                !.df_post = StoreBack(@, "self.df_post",
                    TagSource(to_frame(Obj("self.df_post", @), Head(cols)), "post"))],
            Tail(cols))

-----------------------------------------------------------------------------
(* Dataframe operations used by _ml_data_prep *)

\* sklearn.utils.shuffle(df): the rows in the order perm, a permutation of
\* 1..len(df) drawn from numpy's global random state.
Shuffled(df, perm) ==
    [df EXCEPT !.rows = Tuple([i \in 1..Len(df.rows) |-> df.rows[perm[i]]])]

\* df.iloc[from:to], rows from+1..to
Iloc(df, from, to) == [df EXCEPT !.rows = SubSeq(df.rows, from + 1, to)]

\* df[name] = value (a new last column, or an existing one overwritten)
SetColumn(df, name, dtype, value) ==
    LET i == IF Contains(df.columns, name) THEN ColIndex(df, name)
             ELSE Len(df.columns) + 1
    IN  [columns |-> IF Contains(df.columns, name) THEN df.columns
                     ELSE Append(df.columns, name),
         dtypes |-> IF Contains(df.columns, name)
                    THEN [df.dtypes EXCEPT ![i] = dtype]
                    ELSE Append(df.dtypes, dtype),
         rows |-> Tuple([r \in 1..Len(df.rows) |->
                    [c \in DOMAIN df.rows[r] \cup {name} |->
                        IF c = name THEN value ELSE df.rows[r][c]]])]

\* obj[name] = value, on an object
SetColumnIn(obj, name, dtype, value) ==
    [obj EXCEPT !.frame = SetColumn(@, name, dtype, value)]

\* df.drop(name, axis=1)
Drop(df, name) ==
    LET keep == {i \in 1..Len(df.columns) : df.columns[i] # name}
    IN  [columns |-> SelectSeq(df.columns, LAMBDA c : c # name),
         dtypes |-> Tuple([j \in 1..Cardinality(keep) |->
                        df.dtypes[CHOOSE i \in keep :
                            Cardinality({h \in keep : h < i}) = j - 1]]),
         rows |-> Tuple([r \in 1..Len(df.rows) |->
                    [c \in DOMAIN df.rows[r] \ {name} |-> df.rows[r][c]]])]

\* pd.concat of frames with the same columns
Concat(frames) ==
    [frames[1] EXCEPT !.rows = FlattenSeq([i \in 1..Len(frames) |-> frames[i].rows])]

\* df[df.source == tag].drop('source', axis=1)
FromSource(df, tag) ==
    Drop([df EXCEPT !.rows = SelectSeq(df.rows, LAMBDA r : r["source"] = StrV(tag))],
         "source")

\* The dummy columns get_dummies makes of column c: one per value of the
\* column, in sorted order, named c_value.
DummiesOf(df, c) ==
    LET vals == SortedVals(Range(Column(df, c)))
    IN  Tuple([i \in 1..Len(vals) |->
                  [name |-> c \o "_" \o PyStr(vals[i]), col |-> c, val |-> vals[i]]])

\* The frame get_dummies returns: the columns it keeps, then the dummies.
WithDummies(df, kept, dummies, names) ==
    [columns |-> kept \o names,
     dtypes |-> Tuple([j \in 1..Len(kept) |-> DtypeOf(df, kept[j])])
                    \o Tuple([j \in 1..Len(dummies) |-> "uint8"]),
     rows |-> Tuple([r \in 1..Len(df.rows) |->
                [c \in Range(kept) \cup Range(names) |->
                    IF c \in Range(kept) THEN df.rows[r][c]
                    ELSE LET d == CHOOSE d \in Range(dummies) : d.name = c
                         IN  IntV(IF df.rows[r][d.col] = d.val THEN 1 ELSE 0)]])]

DummyNames(dummies) == Tuple([j \in 1..Len(dummies) |-> dummies[j].name])

WithDummiesOf(df, kept, dummies) == WithDummies(df, kept, dummies, DummyNames(dummies))

\* pd.get_dummies(data=df, columns=cols), for cols that are columns of df:
\* the other columns in their order, then the dummies of each of cols.
get_dummies(df, cols) ==
    IF cols = <<>> THEN df
    ELSE WithDummiesOf(df, SelectSeq(df.columns, LAMBDA c : ~Contains(cols, c)),
                       FlattenSeq([j \in 1..Len(cols) |-> DummiesOf(df, cols[j])]))

\* A one-hot step that encodes each partition on its own.
EncodeOneHotSeparately(train_prior, test, train_post, cols) ==
    [train_prior |-> get_dummies(train_prior, cols),
     test |-> get_dummies(test, cols),
     train_post |-> get_dummies(train_post, cols)]

\* The encoded frame, separated into the partitions by the tag.
BySource(df) ==
    [train_prior |-> FromSource(df, "Train Prior"),
     test |-> FromSource(df, "Test"),
     train_post |-> FromSource(df, "Train Post")]

\* The one-hot step of _ml_data_prep: the three partitions are tagged,
\* concatenated, encoded together and separated again.
EncodeOneHot(train_prior, test, train_post, cols) ==
    BySource(get_dummies(
        Concat(<<SetColumn(train_prior, "source", "object", StrV("Train Prior")),
                 SetColumn(test, "source", "object", StrV("Test")),
                 SetColumn(train_post, "source", "object", StrV("Train Post"))>>),
        cols))

\* category_encoders.CatBoostEncoder.  fit keeps the mean of the target;
\* transform(X, y) with a target replaces each category by the running
\* statistic (sum of the targets of the earlier rows of that category + mean)
\* / (number of such rows + 1).
TargetMean(df, target) ==
    IF Len(df.rows) = 0 THEN 0
    ELSE SumSeq(Tuple([i \in 1..Len(df.rows) |-> PyFloat(df.rows[i][target])[1]]))
            \div Len(df.rows)

CatBoostTransform(df, cols, target, mean) ==
    [df EXCEPT
        !.dtypes = [i \in 1..Len(df.columns) |->
                        IF Contains(cols, df.columns[i]) THEN "float64" ELSE @[i]],
        !.rows = Tuple([r \in 1..Len(df.rows) |->
                    [c \in DOMAIN df.rows[r] |->
                        IF ~Contains(cols, c) THEN df.rows[r][c]
                        ELSE LET before == {j \in 1..(r - 1) :
                                               df.rows[j][c] = df.rows[r][c]}
                                 total == SumSeq(Tuple([j \in 1..(r - 1) |->
                                            IF j \in before
                                            THEN PyFloat(df.rows[j][target])[1]
                                            ELSE 0]))
                             IN  FloatV((total + mean) \div (Cardinality(before) + 1))]])]

\* X = df.drop(target, axis=1).astype(float); y = df[target].astype(float)
AllFloat(X) == AstypeFloat(X, X.columns)

AllCanFloat(X) == CanFloat(X, X.columns)

Features(df, target) == AllFloat(Drop(df, target))

Target(df, target) ==
    Tuple([i \in 1..Len(df.rows) |-> PyFloat(df.rows[i][target])[1]])

-----------------------------------------------------------------------------
(* _ml_data_prep *)

\* The outcome of a private step: the exception it raised, if any, and the
\* instance as the step left it.
Step(self, exc, why) == [exc |-> exc, why |-> why, self |-> self]

\* int(len(df_post) * train_size), train_size in percent
NSplit(n, train_size) == (n * train_size) \div 100

\* Lines 609-624: the matrices are converted to floats and assigned.
PrepAssign(self, target, enc, train_prior, test_prior, train_post, test_post) ==
    IF \/ ~AllCanFloat(Drop(train_prior, target))
       \/ ~AllCanFloat(Drop(test_prior, target))
       \/ ~AllCanFloat(Drop(train_post, target))
       \/ ~AllCanFloat(Drop(test_post, target))
       \/ ~CanFloat(enc.train_prior, <<target>>)
       \/ ~CanFloat(enc.test, <<target>>)
       \/ ~CanFloat(enc.train_post, <<target>>)
    THEN Step(self, "ValueError", "could not convert string to float")
    ELSE Step([self EXCEPT !.ml.matrices =
                <<[X_train_prior |-> Features(train_prior, target),
                   y_train_prior |-> Target(enc.train_prior, target),
                   X_test_prior |-> Features(test_prior, target),
                   y_test |-> Target(enc.test, target),
                   X_train_post |-> Features(train_post, target),
                   y_train_post |-> Target(enc.train_post, target),
                   X_test_post |-> Features(test_post, target),
                   index |-> enc.index]>>],
              "", "")

\* Lines 583-607: one encoder per lineage, fitted on its training partition
\* and applied, with the targets, to that partition and to its copy of test.
PrepCatBoost(self, target, enc, cols, tf_prior, tf_post, mean_of_strings) ==
    IF ~HasColumns(enc.train_prior, cols)
    THEN Step(self, "KeyError", "not in index")
    ELSE IF /\ \E r \in Range(self.df_prior.rows) : r[target].k = "str"
            /\ ~mean_of_strings \/ cols # <<>>
    THEN Step(self, "TypeError", "unsupported operand type")
    ELSE PrepAssign(self, target, enc,
                    CatBoostTransform(enc.train_prior, cols, target, tf_prior),
                    CatBoostTransform(enc.test, cols, target, tf_prior),
                    CatBoostTransform(enc.train_post, cols, target, tf_post),
                    CatBoostTransform(enc.test, cols, target, tf_post))

\* One encoder, fitted on the training partitions of both lineages.
PrepEncodedShared(self, target, enc, cols, mean_of_strings) ==
    PrepCatBoost(self, target, enc, cols,
                 TargetMean(Concat(<<enc.train_prior, enc.train_post>>), target),
                 TargetMean(Concat(<<enc.train_prior, enc.train_post>>), target),
                 mean_of_strings)

PrepEncoded(self, target, enc, cols, mean_of_strings) ==
    PrepCatBoost(self, target, enc, cols, TargetMean(enc.train_prior, target),
                 TargetMean(enc.train_post, target), mean_of_strings)

\* Lines 560-581: the target is taken out of the two lists and the
\* partitions are one-hot encoded.
PrepEncode(self, target, parts, mean_of_strings) ==
    IF ~HasColumns(self.df_prior,
                   SelectSeq(self.ml.OHE_columns[1], LAMBDA col : col # target))
    THEN Step(self, "KeyError", "not in index")
    ELSE PrepEncoded(self, target,
            EncodeOneHot(self.df_prior, parts.test, parts.train_post,
                SelectSeq(self.ml.OHE_columns[1], LAMBDA col : col # target))
              @@ [index |-> parts.index],
            SelectSeq(self.ml.high_cardinality_columns[1], LAMBDA col : col # target),
            mean_of_strings)

\* The row labels of a dataframe of n rows; a label is the position of the
\* row in the dataframe it was read from, counted from 1.
RangeIndex(n) == Tuple([i \in 1..n |-> i])

\* The row labels of the three partitions; they stay on the rows through
\* concat, get_dummies, the selection by tag and drop.
Labels(train_prior, test, train_post) ==
    [train_prior |-> train_prior, test |-> test, train_post |-> train_post]

\* A cut that leaves every row in the test partition.
ShuffleSplitKeepingAll(df_prior, df_post, index, n_split) ==
    [train_post |-> Iloc(df_post, 0, n_split),
     test |-> df_post,
     index |-> Labels(RangeIndex(Len(df_prior.rows)), index,
                      SubSeq(index, 1, n_split))]

\* Lines 542-554: the shuffled post rows, labelled index, are cut at n_split.
ShuffleSplit(df_prior, df_post, index, n_split) ==
    [train_post |-> Iloc(df_post, 0, n_split),
     test |-> Iloc(df_post, n_split, Len(df_post.rows)),
     index |-> Labels(RangeIndex(Len(df_prior.rows)),
                      SubSeq(index, n_split + 1, Len(index)),
                      SubSeq(index, 1, n_split))]

\* Lines 538-558: the training part of post and the test partition.
PrepSplit(self, perm) ==
    IF self.ml.test_data[1].kind = "none"
    THEN ShuffleSplit(self.df_prior, Shuffled(self.df_post, perm), perm,
                      NSplit(Len(self.df_post.rows), self.ml.config[1].train_size))
    ELSE [train_post |-> self.df_post, test |-> self.ml.test_data[1].frame[1],
          index |-> Labels(RangeIndex(Len(self.df_prior.rows)),
                           RangeIndex(Len(self.ml.test_data[1].frame[1].rows)),
                           RangeIndex(Len(self.df_post.rows)))]

\* perm is the order shuffle gives the post rows; mean_of_strings tells
\* whether the installed pandas averages a column of numeric strings or
\* raises on it.
_ml_data_prep(self, perm, mean_of_strings) ==
    PrepEncode(self, self.ml.config[1].target_column, PrepSplit(self, perm),
               mean_of_strings)

-----------------------------------------------------------------------------
(* Model building and evaluation *)

\* RandomizedSearchCV(...).fit(X, y): the fitted search is known by what it
\* was fitted with.  The cross-validation split refuses more folds than
\* samples (KFold) or than the members of every class (StratifiedKFold).
ClassCount(y, c) == Cardinality({i \in 1..Len(y) : y[i] = c})

FitFails(family, X, y, cv) ==
    \/ cv < 2
    \/ Len(X.columns) = 0
    \/ IF family = "classifier"
       THEN \A c \in Range(y) : ClassCount(y, c) < cv
       ELSE Len(y) < cv

Fitted(family, X, y, cfg) ==
    [family |-> family, X |-> X, y |-> y, cv |-> cfg.cv, n_iter |-> cfg.n_iter,
     param_grid |-> cfg.param_grid, random_state |-> cfg.random_state]

Build(self, family) ==
    LET cfg == self.ml.config[1]
        m == self.ml.matrices[1]
    IN  IF \/ FitFails(family, m.X_train_prior, m.y_train_prior, cfg.cv)
           \/ FitFails(family, m.X_train_post, m.y_train_post, cfg.cv)
        THEN Step(self, "ValueError", "Cannot have number of splits greater than the number of samples")
        ELSE Step([self EXCEPT !.ml.models =
                    <<[model_prior |-> Fitted(family, m.X_train_prior, m.y_train_prior, cfg),
                       model_post |-> Fitted(family, m.X_train_post, m.y_train_post, cfg)]>>],
                  "", "")

_build_regressor(self) == Build(self, "regressor")

_build_classifier(self) == Build(self, "classifier")

\* The regression report: rows Prior and Post, columns RMSE, MAE and R2,
\* computed from the two models' predictions on the test features and y_test.
_eval_regressor(self) ==
    LET m == self.ml.matrices[1]
        models == self.ml.models[1]
    IN  IF Len(m.y_test) = 0
        THEN Step(self, "ValueError", "Found array with 0 sample(s)")
        ELSE Step([self EXCEPT !.ml.ml_report =
                    <<[index |-> <<"Prior", "Post">>,
                       columns |-> <<"RMSE", "MAE", "R2">>,
                       predicted_by |-> models,
                       X_test_prior |-> m.X_test_prior,
                       X_test_post |-> m.X_test_post,
                       y_test |-> m.y_test]>>],
                  "", "")

\* The predictions are made, then the name y_test is read before the
\* function has bound it.
_eval_classifier(self) ==
    LET m == self.ml.matrices[1]
    IN  IF Len(m.y_test) = 0
        THEN Step(self, "ValueError", "Found array with 0 sample(s)")
        ELSE Step(self, "UnboundLocalError",
                  "local variable 'y_test' referenced before assignment")

-----------------------------------------------------------------------------
(* compare_ml_efficacy *)

\* The test_data argument: None, a dataframe, or something else.
NoTestData == [kind |-> "none", frame |-> <<>>]
TestData(df) == [kind |-> "frame", frame |-> <<df>>]
NotAFrame == [kind |-> "other", frame |-> <<>>]

\* df.nunique()[col]
Nunique(df, col) == Cardinality(Range(Column(df, col)))

InferOHE(self, cutoff) ==
    SelectSeq(self.df_prior.columns,
              LAMBDA col : /\ Nunique(self.df_prior, col) <= cutoff
                           /\ Contains(self.categorical_columns, col))

InferHighCardinality(self, cutoff) ==
    SelectSeq(self.df_prior.columns,
              LAMBDA col : /\ Nunique(self.df_prior, col) > cutoff
                           /\ Contains(self.categorical_columns, col))

\* What a call of compare_ml_efficacy leaves: the instance, the outcome the
\* caller sees, and the step the call ended in.
Ended(self, stage, exc, why) ==
    [self |-> self, stage |-> stage,
     out |-> Raise("compare_ml_efficacy", exc, why) @@ [value |-> <<>>]]

Returned(self) ==
    IF self.ml.ml_report = <<>>
    THEN Ended(self, "return", "AttributeError",
               "'DataDriftDetector' object has no attribute 'ml_report'")
    ELSE [self |-> self, stage |-> "return",
          out |-> [op |-> "compare_ml_efficacy", status |-> "ok", exc |-> "",
                   why |-> "", value |-> self.ml.ml_report]]

\* Lines 520-528, after the models are built: evaluation and return.
Evaluated(self, evaluated, step) ==
    IF evaluated.exc # "" THEN Ended(self, step, evaluated.exc, evaluated.why)
    ELSE Returned(evaluated.self)

Built(self, built, classify) ==
    IF built.exc # ""
    THEN Ended(self, IF classify THEN "_build_classifier" ELSE "_build_regressor",
               built.exc, built.why)
    ELSE IF classify
    THEN Evaluated(built.self, _eval_classifier(built.self), "_eval_classifier")
    ELSE Evaluated(built.self, _eval_regressor(built.self), "_eval_regressor")

\* Lines 518-528: the branch on the role of the target.
Branch(self, target_column) ==
    IF Contains(self.categorical_columns, target_column)
    THEN Built(self, _build_classifier(self), TRUE)
    ELSE IF Contains(self.numeric_columns, target_column)
    THEN Built(self, _build_regressor(self), FALSE)
    ELSE Returned(self)

PrepDone(self, prepared, target_column) ==
    IF prepared.exc # "" THEN Ended(self, "_ml_data_prep", prepared.exc, prepared.why)
    ELSE Branch(prepared.self, target_column)

Prep(self, a, perm, mean_of_strings) ==
    PrepDone(self, _ml_data_prep(self, perm, mean_of_strings), a.target_column)

\* Lines 506-516: the test data are copied, converted and assigned.
NormaliseTestData(self, a, perm, mean_of_strings) ==
    IF a.test_data.kind = "none"
    THEN Prep([self EXCEPT !.ml.test_data = <<NoTestData>>], a, perm, mean_of_strings)
    ELSE IF ~HasColumns(a.test_data.frame[1], self.numeric_columns)
    THEN Ended(self, "test_data", "KeyError", "not in index")
    ELSE IF ~CanFloat(a.test_data.frame[1], self.numeric_columns)
    THEN Ended(self, "test_data", "ValueError", "could not convert string to float")
    ELSE IF ~HasColumns(a.test_data.frame[1], self.categorical_columns)
    THEN Ended(self, "test_data", "KeyError", "not in index")
    ELSE Prep([self EXCEPT !.ml.test_data =
                <<TestData(AstypeStr(AstypeFloat(a.test_data.frame[1],
                                                 self.numeric_columns),
                                     self.categorical_columns))>>],
              a, perm, mean_of_strings)

\* Lines 484-504: the settings and the two column lists are assigned.
Configured(self, a) ==
    [self EXCEPT
        !.ml.config = <<[target_column |-> a.target_column,
                         train_size |-> a.train_size,
                         random_state |-> a.random_state,
                         cv |-> a.cv, n_iter |-> a.n_iter,
                         param_grid |-> a.param_grid]>>,
        !.ml.OHE_columns =
            <<IF a.OHE_columns.kind = "none"
              THEN InferOHE(self, a.OHE_columns_cutoff)
              ELSE a.OHE_columns.items>>,
        !.ml.high_cardinality_columns =
            <<IF a.high_cardinality_columns.kind = "none"
              THEN InferHighCardinality(self, a.OHE_columns_cutoff)
              ELSE a.high_cardinality_columns.items>>]

compare_ml_efficacy(self, a, perm, mean_of_strings) ==
    IF ~Contains(self.df_prior.columns, a.target_column)
    THEN Ended(self, "assert", "AssertionError",
               "target_column does not exist in df_prior")
    ELSE IF a.test_data.kind = "other"
    THEN Ended(self, "assert", "AssertionError",
               "test_data should be a pandas dataframe")
    ELSE IF a.OHE_columns.kind = "other"
    THEN Ended(self, "assert", "AssertionError", "OHE_columns should be of type list")
    ELSE IF a.high_cardinality_columns.kind = "other"
    THEN Ended(self, "assert", "AssertionError",
               "high_cardinality_columns should be of type list")
    ELSE NormaliseTestData(Configured(self, a), a, perm, mean_of_strings)

\* The instance as _ml_data_prep leaves its two datasets: the copies of
\* lines 538-539 are tagged 'source' (lines 572-574).  Without test data
\* the tagged training part is a slice of what shuffle returned, which is a
\* dataframe of its own.
PrepLeft(self) ==
    [self EXCEPT
        !.df_prior = StoreBack(@, "self.df_prior",
            SetColumnIn(deepcopy(Obj("self.df_prior", @)),
                        "source", "object", StrV("Train Prior"))),
        !.df_post =
            IF self.ml.test_data[1].kind = "none" THEN @
            ELSE StoreBack(@, "self.df_post",
                    SetColumnIn(deepcopy(Obj("self.df_post", @)),
                                "source", "object", StrV("Train Post")))]

\* test_data_ of lines 506-514 when the call leaves them.
NormalisedSoFar(self, df) ==
    IF ~HasColumns(df, self.numeric_columns) \/ ~CanFloat(df, self.numeric_columns)
    THEN df
    ELSE IF ~HasColumns(df, self.categorical_columns)
    THEN AstypeFloat(df, self.numeric_columns)
    ELSE AstypeStr(AstypeFloat(df, self.numeric_columns), self.categorical_columns)

\* The copy of the caller's dataframe the call works on: made at line 506,
\* converted, held by self.test_data (line 516), and copied again and
\* tagged by _ml_data_prep (lines 557, 573).
WorkingTestData(self, df, stage) ==
    IF stage = "test_data"
    THEN [deepcopy(Obj("caller.test_data", df)) EXCEPT
            !.frame = NormalisedSoFar(self, df)]
    ELSE SetColumnIn(
            deepcopy(Bound([deepcopy(Obj("caller.test_data", df)) EXCEPT
                                !.frame = NormalisedSoFar(self, df)],
                           "self.test_data")),
            "source", "object", StrV("Test"))

\* The caller's test_data argument after a call that ended in stage.
CallerTestData(self, a, stage) ==
    IF a.test_data.kind # "frame" \/ stage = "assert" THEN a.test_data
    ELSE TestData(StoreBack(a.test_data.frame[1], "caller.test_data",
                            WorkingTestData(self, a.test_data.frame[1], stage)))

\* The instance after a call that ended in stage.
CallLeft(self, stage) ==
    IF stage \in {"assert", "test_data"} THEN self ELSE PrepLeft(self)

-----------------------------------------------------------------------------
(* The caller: inputs of the drift computation *)

NoOut == [op |-> "none", status |-> "none", exc |-> "", why |-> "", value |-> <<>>]

\* The non-decreasing sequences of length n over 1..k.
NonDecreasing(n, k) ==
    {s \in [1..n -> 1..k] : \A i \in 1..(n - 1) : s[i] <= s[i + 1]}

Letters == <<"a", "b", "c", "d">>

\* Datasets with two string columns, each over the categories a and b.
CatFrame(x, y) ==
    Frame(<<"c1", "c2">>, <<"object", "object">>,
          [i \in 1..Len(x) |-> [c \in {"c1", "c2"} |->
                                  StrV(Letters[IF c = "c1" THEN x[i] ELSE y[i]])]])

CatFrames ==
    UNION {{CatFrame(x, y) : x \in NonDecreasing(n, 2), y \in NonDecreasing(n, 2)} :
              n \in 1..MaxRows}

\* Datasets with a string column over a, b and an integer column over 0, 1, 2.
MixedFrame(x, y) ==
    Frame(<<"c1", "n1">>, <<"object", "int64">>,
          [i \in 1..Len(x) |-> [c \in {"c1", "n1"} |->
                                  IF c = "c1" THEN StrV(Letters[x[i]])
                                  ELSE IntV(y[i] - 1)]])

MixedFrames ==
    UNION {{MixedFrame(x, y) : x \in NonDecreasing(n, 2), y \in NonDecreasing(n, 3)} :
              n \in 1..MaxRows}

\* The role lists the caller passes: none, or an empty list for one role.
RoleChoices == {<<None, None>>, <<List(<<>>), None>>, <<None, List(<<>>)>>}

DriftArgs ==
    {[df_prior |-> f[1], df_post |-> f[2],
      categorical_columns |-> r[1], numeric_columns |-> r[2]] :
        f \in (CatFrames \X CatFrames) \cup (MixedFrames \X MixedFrames),
        r \in RoleChoices}

-----------------------------------------------------------------------------
(* Actions *)

\* detector = DataDriftDetector(df_prior, df_post, categorical_columns, numeric_columns)
DoConstruct ==
    /\ det = <<>>
    /\ out.op = "none"
    /\ \E r \in {Construct(args.df_prior, args.df_post,
                            args.categorical_columns, args.numeric_columns)} :
           /\ det' = r.self
           /\ out' = [op |-> "__init__",
                      status |-> IF r.exc = "" THEN "ok" ELSE "raise",
                      exc |-> r.exc, why |-> r.why, value |-> <<>>]
           /\ args' = [args EXCEPT !.df_prior = r.inputs.df_prior,
                                   !.df_post = r.inputs.df_post]
    /\ UNCHANGED call

\* detector.calculate_drift()
DoCalculateDrift ==
    /\ det # <<>>
    /\ out' = calculate_drift(det[1])
    /\ det' = <<DriftLeft(det[1], det[1].categorical_columns)>>
    /\ UNCHANGED <<args, call>>

InitDrift ==
    /\ args \in DriftArgs
    /\ det = <<>>
    /\ out = NoOut
    /\ call = <<>>

NextDrift == DoConstruct \/ DoCalculateDrift

SpecDrift == InitDrift /\ [][NextDrift]_vars

-----------------------------------------------------------------------------
(* Properties of calculate_drift *)

DriftReturned == out.op = "calculate_drift" /\ out.status = "ok"

\* The detector the caller gets from the same arguments with the two
\* datasets exchanged, and what its calculate_drift does.
SwappedDrift ==
    calculate_drift(Construct(args.df_post, args.df_prior,
                              args.categorical_columns, args.numeric_columns).self[1])

Distances(ranked) == Range(ranked.items)

\* C1: the distance calculate_drift reports for a column, categorical or
\* numeric, is the same for the detector built from (prior, post) and the one
\* built from (post, prior); one raises exactly when the other does.
C1_Symmetry ==
    out.op = "calculate_drift" =>
        /\ SwappedDrift.status = out.status
        /\ out.status = "ok" =>
            /\ Distances(SwappedDrift.value[1].categorical)
                    = Distances(out.value[1].categorical)
            /\ Distances(SwappedDrift.value[1].numerical)
                    = Distances(out.value[1].numerical)

\* A drift report of two different datasets with a categorical and a numeric
\* column that both drifted.
C1_Witness ==
    /\ DriftReturned
    /\ det[1].df_prior # det[1].df_post
    /\ \E x \in Distances(out.value[1].categorical) : x[2] > 0
    /\ \E x \in Distances(out.value[1].numerical) : x[2] > 0

\* C2: when prior and post are the same dataset, every categorical column is
\* reported with distance exactly 0.
C2_Identity ==
    (DriftReturned /\ det[1].df_prior = det[1].df_post) =>
        \A x \in Distances(out.value[1].categorical) : x[2] = 0

\* A drift report of a dataset against itself, a categorical column of which
\* holds two categories.
C2_Witness ==
    /\ DriftReturned
    /\ det[1].df_prior = det[1].df_post
    /\ \E x \in Distances(out.value[1].categorical) :
            Len(Categories(det[1], x[1])) = 2

\* The vector of one dataset over the index cats: entry i is the number of
\* rows of df with category cats[i] over the number of rows of df.
IsFrequencies(vector, cats, df, col) ==
    /\ Len(vector) = Len(cats)
    /\ \A i \in 1..Len(cats) :
          /\ vector[i].num = Cardinality({r \in 1..Len(df.rows) : df.rows[r][col] = cats[i]})
          /\ vector[i].den = Len(df.rows)
          /\ cats[i] \notin Range(Column(df, col)) => vector[i].num = 0
    /\ SumSeq(Tuple([i \in 1..Len(vector) |-> vector[i].num])) = Len(df.rows)
    /\ Len(df.rows) > 0

\* C13: in a returned drift report the distance of every categorical column
\* is the Jensen-Shannon distance of two vectors over one index, the
\* categories seen in prior or post, each once; each entry is the count of
\* the category in that dataset over the dataset's row count, 0 for a
\* category the dataset lacks, and each vector sums to 1.
C13_ProbabilityVectors ==
    DriftReturned =>
        \A j \in 1..Len(det[1].categorical_columns) :
            LET col == det[1].categorical_columns[j]
                cats == Categories(det[1], col)
                prior == ProbabilityArray(det[1], col, "prior")
                post == ProbabilityArray(det[1], col, "post")
            IN  /\ Range(cats) = Range(Column(det[1].df_prior, col))
                                    \cup Range(Column(det[1].df_post, col))
                /\ Cardinality(Range(cats)) = Len(cats)
                /\ IsFrequencies(prior, cats, det[1].df_prior, col)
                /\ IsFrequencies(post, cats, det[1].df_post, col)
                /\ <<col, jensenshannon(prior, post)>>
                        \in Distances(out.value[1].categorical)

\* A report on a column with a category only post has: the vector of prior
\* has a 0 where the vector of post has not.
C13_Witness ==
    /\ DriftReturned
    /\ \E j \in 1..Len(det[1].categorical_columns) :
          LET col == det[1].categorical_columns[j]
              prior == ProbabilityArray(det[1], col, "prior")
              post == ProbabilityArray(det[1], col, "post")
          IN  /\ Len(prior) = 2
              /\ \E i \in 1..2 : prior[i].num = 0 /\ post[i].num > 0
              /\ \A i \in 1..2 : post[i].num > 0

IsSortedDesc(items) ==
    \A i \in 1..(Len(items) - 1) : items[i][2] >= items[i + 1][2]

\* Position of column c in the role list cols.
RolePos(cols, c) == CHOOSE i \in 1..Len(cols) : cols[i] = c

TiesInRoleOrder(items, cols) ==
    \A i \in 1..(Len(items) - 1) :
        items[i][2] = items[i + 1][2] =>
            RolePos(cols, items[i][1]) < RolePos(cols, items[i + 1][1])

RankedListOf(ranked, cols) ==
    /\ ranked.type = "list"
    /\ Len(ranked.items) = Cardinality(Range(cols))
    /\ {ranked.items[i][1] : i \in 1..Len(ranked.items)} = Range(cols)
    /\ IsSortedDesc(ranked.items)
    /\ TiesInRoleOrder(ranked.items, cols)

\* C3: for every role assignment, an empty role set included, calculate_drift
\* returns two lists of (column, distance) pairs, one pair per column of the
\* role, sorted by descending distance, equal distances in column order.
C3_RankedLists ==
    DriftReturned =>
        /\ RankedListOf(out.value[1].categorical, det[1].categorical_columns)
        /\ RankedListOf(out.value[1].numerical, det[1].numeric_columns)

-----------------------------------------------------------------------------
(* The caller: inputs of the constructor *)

ColNames == {"c1", "n1", "b1"}
ColDtypes == {"object", "int64", "bool"}

\* A cell of each dtype.
CellOf(dtype) ==
    CASE dtype = "object" -> StrV("a")
      [] dtype = "int64"  -> IntV(1)
      [] dtype = "bool"   -> BoolV(1)

\* One-row datasets of up to MaxCols distinctly named columns, in every order
\* and with every dtype.
SchemaFrames ==
    UNION {{Frame(Tuple(names), Tuple(dtypes),
                  <<[c \in Range(names) |->
                        CellOf(dtypes[CHOOSE i \in 1..n : names[i] = c])]>>) :
                names \in {f \in [1..n -> ColNames] :
                              \A i, j \in 1..n : f[i] = f[j] => i = j},
                dtypes \in [1..n -> ColDtypes]} :
              n \in 0..MaxCols}

SameSchema(f, g) == f.columns = g.columns /\ f.dtypes = g.dtypes

\* Role lists the caller gives for one role or both.
GivenRoles ==
    {<<List(<<"c1">>), List(<<"n1">>)>>, <<List(<<"n1">>), None>>,
     <<None, List(<<"n1">>)>>, <<List(<<"n1">>), List(<<"n1">>)>>}

ConstructArgs ==
    {[df_prior |-> f, df_post |-> g,
      categorical_columns |-> r[1], numeric_columns |-> r[2]] :
        f \in SchemaFrames, g \in SchemaFrames,
        r \in {<<None, None>>, <<NotAList, None>>} \cup GivenRoles}

InitConstruct ==
    /\ args \in ConstructArgs
    /\ det = <<>>
    /\ out = NoOut
    /\ call = <<>>

NextConstruct == DoConstruct

SpecConstruct == InitConstruct /\ [][NextConstruct]_vars

\* The failure the constructor's two schema assertions announce.
SchemaMismatchError ==
    /\ out.status = "raise"
    /\ out.exc = "AssertionError"
    /\ out.why \in {"same column names", "same column types"}

\* C4: a constructor call on two datasets whose column names (set, count or
\* order) or dtypes differ fails with the schema-mismatch error and leaves no
\* instance.
C4_SchemaEnforced ==
    (out.op = "__init__" /\ ~SameSchema(args.df_prior, args.df_post)) =>
        SchemaMismatchError /\ det = <<>>

-----------------------------------------------------------------------------
(* The caller: inputs of compare_ml_efficacy *)

\* Datasets with a string column c1, an integer column n1, a column k1 of
\* class labels held as strings, and a boolean column b1.
MLColumns == <<"c1", "n1", "k1", "b1">>

MLRow(c, n, k, b) ==
    [col \in Range(MLColumns) |->
        CASE col = "c1" -> StrV(c)
          [] col = "n1" -> IntV(n)
          [] col = "k1" -> StrV(k)
          [] col = "b1" -> BoolV(b)]

MLFrame(rows) == Frame(MLColumns, <<"object", "int64", "object", "bool">>, rows)

PriorRows ==
    <<MLRow("a", 0, "0", 1), MLRow("b", 1, "1", 0), MLRow("c", 2, "0", 1),
      MLRow("a", 2, "1", 0), MLRow("b", 0, "0", 1)>>

PostRows ==
    <<MLRow("d", 1, "1", 0), MLRow("a", 0, "0", 1), MLRow("b", 2, "1", 0),
      MLRow("a", 1, "0", 1), MLRow("d", 2, "1", 0)>>

ExternalTest == MLFrame(<<MLRow("c", 2, "0", 1), MLRow("d", 1, "1", 0)>>)

EfficacyArgs ==
    {[df_prior |-> MLFrame(SubSeq(PriorRows, 1, m)),
      df_post |-> MLFrame(SubSeq(PostRows, 1, n)),
      categorical_columns |-> None, numeric_columns |-> None] :
        m \in 2..MaxMLRows, n \in 1..MaxMLRows}

\* The calls the caller makes: the plain one, and one per way of departing
\* from it.
PlainCall ==
    [target_column |-> "n1", test_data |-> NoTestData, OHE_columns |-> None,
     high_cardinality_columns |-> None, OHE_columns_cutoff |-> DefaultCutoff,
     random_state |-> <<7>>, train_size |-> 70, cv |-> 2, n_iter |-> 5,
     param_grid |-> "default"]

Calls ==
    {PlainCall,
     [PlainCall EXCEPT !.random_state = <<>>],
     [PlainCall EXCEPT !.test_data = TestData(ExternalTest)],
     [PlainCall EXCEPT !.test_data = NotAFrame],
     [PlainCall EXCEPT !.target_column = "k1"],
     [PlainCall EXCEPT !.target_column = "b1"],
     [PlainCall EXCEPT !.target_column = "zz"],
     [PlainCall EXCEPT !.OHE_columns = NotAList],
     [PlainCall EXCEPT !.high_cardinality_columns = NotAList],
     [PlainCall EXCEPT !.OHE_columns = List(<<"c1", "zz">>)],
     [PlainCall EXCEPT !.high_cardinality_columns = List(<<"zz">>)],
     [PlainCall EXCEPT !.OHE_columns = List(<<>>),
                       !.high_cardinality_columns = List(<<>>)],
     [PlainCall EXCEPT !.OHE_columns = List(<<"c1">>),
                       !.high_cardinality_columns = List(<<"k1">>)],
     [PlainCall EXCEPT !.OHE_columns_cutoff = 2],
     [PlainCall EXCEPT !.OHE_columns_cutoff = 1],
     [PlainCall EXCEPT !.cv = 3]}

\* The orders shuffle can give the post rows; it is called only when no test
\* data is given.
Orders(self, a) ==
    IF a.test_data.kind = "none" THEN PermsOf(1..Len(self.df_post.rows))
    ELSE {Tuple([i \in 1..Len(self.df_post.rows) |-> i])}

CallNumber == IF call = <<>> THEN 0 ELSE call[1].number

\* One call, with arguments from calls.  The record of the call keeps the
\* arguments as they were passed and test_data as the call left it.
CompareMLEfficacyOf(calls) ==
    /\ det # <<>>
    /\ CallNumber < MaxCalls
    /\ \E a \in calls, mean_of_strings \in BOOLEAN :
         \E perm \in Orders(det[1], a) :
         \E r \in {compare_ml_efficacy(det[1], a, perm, mean_of_strings)} :
            /\ det' = <<CallLeft(r.self, r.stage)>>
            /\ out' = r.out
            /\ call' = <<[args |-> a, stage |-> r.stage, number |-> CallNumber + 1,
                          test_data |-> CallerTestData(det[1], a, r.stage)]>>
    /\ UNCHANGED args

DoCompareMLEfficacy == CompareMLEfficacyOf(Calls)

\* The first call on a new detector.
DoFirstCompareMLEfficacy == call = <<>> /\ DoCompareMLEfficacy

InitEfficacy ==
    /\ args \in EfficacyArgs
    /\ det = <<>>
    /\ out = NoOut
    /\ call = <<>>

NextEfficacy == DoConstruct \/ DoCompareMLEfficacy

SpecEfficacy == InitEfficacy /\ [][NextEfficacy]_vars

NextPrep == DoConstruct \/ DoFirstCompareMLEfficacy

SpecPrep == InitEfficacy /\ [][NextPrep]_vars

-----------------------------------------------------------------------------
(* Properties of compare_ml_efficacy *)

Compared == out.op = "compare_ml_efficacy" /\ call # <<>>

\* The steps of a call that come after _ml_data_prep has returned.
AfterPrep ==
    {"_build_classifier", "_build_regressor", "_eval_classifier",
     "_eval_regressor", "return"}

Prepared == Compared /\ call[1].stage \in AfterPrep

XNames == <<"X_train_prior", "X_test_prior", "X_train_post", "X_test_post">>

\* C5: after _ml_data_prep the four feature matrices have the same column
\* names in the same order, every row has exactly those columns, and none of
\* the matrices has the target column or the partition tag "source".
C5_EncodingAligned ==
    Prepared =>
        LET m == det[1].ml.matrices[1]
            target == call[1].args.target_column
        IN  \A i \in 1..Len(XNames) :
                /\ m[XNames[i]].columns = m.X_train_prior.columns
                /\ ~Contains(m[XNames[i]].columns, target)
                /\ ~Contains(m[XNames[i]].columns, "source")
                /\ \A r \in Range(m[XNames[i]].rows) :
                        DOMAIN r = Range(m[XNames[i]].columns)

\* A call that returns its report after preparing matrices with a dummy column
\* of a category that only the test partition has, next to a column the
\* high-cardinality encoder filled.
C5_Witness ==
    /\ Prepared
    /\ out.status = "ok"
    /\ LET m == det[1].ml.matrices[1]
       IN  /\ Contains(m.X_train_prior.columns, "k1")
           /\ \E c \in Range(m.X_test_post.columns) \ Range(MLColumns) :
                /\ \A r \in Range(m.X_train_prior.rows) : r[c].n = 0
                /\ \A r \in Range(m.X_train_post.rows) : r[c].n = 0
                /\ \E r \in Range(m.X_test_post.rows) : r[c].n = 1000

\* The number of classes of the target column in the two datasets.
Classes(self, target) ==
    Cardinality(Range(Column(self.df_prior, target))
                    \cup Range(Column(self.df_post, target)))

\* C6: a call with a categorical target that gets as far as evaluating its
\* classifiers returns a report of 2 rows when the target has two classes and
\* of 2k rows when it has k > 2.
C6_ClassificationReport ==
    (/\ Compared
     /\ Contains(det[1].categorical_columns, call[1].args.target_column)
     /\ call[1].stage \in {"_eval_classifier", "return"})
        => /\ out.status = "ok"
           /\ LET k == Classes(det[1], call[1].args.target_column)
              IN  Len(out.value[1].index) = IF k = 2 THEN 2 ELSE 2 * k

\* C7: when a call with a seed and no test data returns its report and is
\* repeated with the same arguments, the second call leaves the same split and
\* matrices as the first and returns the same report.
C7_SeededSplit ==
    [][(/\ call # <<>> /\ call' # <<>>
        /\ call'[1].number = call[1].number + 1
        /\ call'[1].args = call[1].args
        /\ call[1].args.random_state # <<>>
        /\ call[1].args.test_data.kind = "none"
        /\ out.status = "ok" /\ out'.status = "ok")
            => /\ det'[1].ml.matrices = det[1].ml.matrices
               /\ out'.value = out.value]_vars

\* The arguments the specification calls malformed.
Malformed(self, a) ==
    \/ ~Contains(self.df_prior.columns, a.target_column)
    \/ a.test_data.kind = "other"
    \/ a.OHE_columns.kind = "other"
    \/ a.high_cardinality_columns.kind = "other"
    \/ a.OHE_columns.kind = "list" /\ ~HasColumns(self.df_prior, a.OHE_columns.items)
    \/ /\ a.high_cardinality_columns.kind = "list"
       /\ ~HasColumns(self.df_prior, a.high_cardinality_columns.items)

\* C8: the first call on a detector, given malformed arguments, fails in the
\* assertions at its start and has assigned no attribute of the instance.
C8_FailFast ==
    (Compared /\ Malformed(det[1], call[1].args))
        => /\ out.status = "raise"
           /\ out.exc = "AssertionError"
           /\ call[1].stage = "assert"
           /\ det[1].ml = NoMLState

\* C9: a call with well-formed arguments that raises in _ml_data_prep, in
\* model building or in evaluation leaves every attribute an earlier call
\* assigned as it was.
C9_StatePreserved ==
    [][(/\ call' # <<>>
        /\ call'[1].number = CallNumber + 1
        /\ out'.status = "raise"
        /\ ~Malformed(det[1], call'[1].args)
        /\ call'[1].stage \in (AfterPrep \cup {"_ml_data_prep"}) \ {"return"})
            => \A f \in DOMAIN NoMLState :
                    det[1].ml[f] # <<>> => det'[1].ml[f] = det[1].ml[f]]_vars

\* The model family the role of the target selects.
FamilyOf(self, target) ==
    IF Contains(self.categorical_columns, target) THEN "classifier"
    ELSE IF Contains(self.numeric_columns, target) THEN "regressor"
    ELSE "none"

\* C10: a report that a call returns was computed from the matrices that call
\* prepared, by models of the family of the target's role that were fitted
\* to those matrices with that call's settings.
C10_FreshReport ==
    (Compared /\ out.status = "ok") =>
        LET report == out.value[1]
            m == det[1].ml.matrices[1]
            models == det[1].ml.models[1]
            a == call[1].args
            fitted(model, X, y) ==
                /\ model.family = FamilyOf(det[1], a.target_column)
                /\ model.X = X /\ model.y = y
                /\ model.cv = a.cv /\ model.random_state = a.random_state
        IN  /\ report.predicted_by = models
            /\ report.y_test = m.y_test
            /\ report.X_test_prior = m.X_test_prior
            /\ report.X_test_post = m.X_test_post
            /\ fitted(models.model_prior, m.X_train_prior, m.y_train_prior)
            /\ fitted(models.model_post, m.X_train_post, m.y_train_post)

-----------------------------------------------------------------------------
(* Sequences of calls on one detector *)

\* Datasets of up to MaxRows rows.
SmallArgs ==
    {[df_prior |-> MLFrame(SubSeq(PriorRows, 1, m)),
      df_post |-> MLFrame(SubSeq(PostRows, 1, n)),
      categorical_columns |-> None, numeric_columns |-> None] :
        m \in 2..MaxRows, n \in 1..MaxRows}

\* Calls that return, calls that raise in each step, with and without
\* external test data.
SomeCalls ==
    {PlainCall,
     [PlainCall EXCEPT !.test_data = TestData(ExternalTest)],
     [PlainCall EXCEPT !.test_data = TestData(Drop(ExternalTest, "c1"))],
     [PlainCall EXCEPT !.target_column = "k1"],
     [PlainCall EXCEPT !.target_column = "k1",
                       !.test_data = TestData(ExternalTest)],
     [PlainCall EXCEPT !.target_column = "zz"],
     [PlainCall EXCEPT !.OHE_columns = List(<<"c1", "zz">>)]}

DoSomeCompareMLEfficacy == CompareMLEfficacyOf(SomeCalls)

InitCalls ==
    /\ args \in SmallArgs
    /\ det = <<>>
    /\ out = NoOut
    /\ call = <<>>

NextCalls == DoConstruct \/ DoCalculateDrift \/ DoSomeCompareMLEfficacy

SpecCalls == InitCalls /\ [][NextCalls]_vars

\* The two datasets of a detector built from the caller's arguments.
Canonical ==
    [df \in {"df_prior", "df_post"} |->
        Construct(args.df_prior, args.df_post,
                  args.categorical_columns, args.numeric_columns).self[1][df]]

\* C11: through any sequence of calculate_drift and compare_ml_efficacy
\* calls, returning or raising, with or without test data, the detector's
\* two datasets stay what the constructor made them, and the caller's two
\* dataframes and its test dataframe stay what the caller passed.
C11_CanonicalUnchanged ==
    /\ [](det # <<>> => /\ det[1].df_prior = Canonical["df_prior"]
                        /\ det[1].df_post = Canonical["df_post"])
    /\ [][/\ args' = args
          /\ call' # <<>> => call'[1].test_data = call'[1].args.test_data]_vars

\* A second call, with test data, has returned a report after an earlier
\* call; the constructor had converted the integer
\* column of its copies and the call that of its copy of the test data.
C11_Witness ==
    /\ det # <<>>
    /\ call # <<>>
    /\ call[1].number = 2
    /\ out.op = "compare_ml_efficacy"
    /\ out.status = "ok"
    /\ call[1].args.test_data.kind = "frame"
    /\ det[1].ml.test_data[1].frame[1] # call[1].test_data.frame[1]
    /\ det[1].df_prior # args.df_prior
    /\ det[1].df_prior = Canonical["df_prior"]
    /\ det[1].df_post = Canonical["df_post"]
    /\ call[1].test_data = call[1].args.test_data

-----------------------------------------------------------------------------
(* The partitions *)

\* The rows of the matrix X and the targets y are the rows of df labelled
\* index, in that order: the target, the columns that are not encoded, and
\* the dummy of the row's category for each one-hot encoded column.
Allocated(self, X, y, index, df) ==
    LET target == self.ml.config[1].target_column
        OHE == Range(self.ml.OHE_columns[1]) \ {target}
        encoded == Range(self.ml.high_cardinality_columns[1]) \cup OHE \cup {target}
    IN  /\ Len(X.rows) = Len(index)
        /\ Len(y) = Len(index)
        /\ \A i \in 1..Len(index) :
              /\ index[i] \in 1..Len(df.rows)
              /\ <<y[i]>> = PyFloat(df.rows[index[i]][target])
              /\ \A c \in Range(df.columns) \ encoded :
                    <<X.rows[i][c].n>> = PyFloat(df.rows[index[i]][c])
              /\ \A c \in OHE :
                    X.rows[i][c \o "_" \o PyStr(df.rows[index[i]][c])] = FloatV(1000)

\* C12: when _ml_data_prep has returned, prior-training data are the prior
\* rows in their order; without test data the post-training rows and the
\* evaluation rows are the first floor(n * train_size) and the remaining
\* rows of one permutation of the n post rows; with test data the evaluation
\* rows are the rows the caller passed and post-training data are the post
\* rows in their order.
C12_SplitAllocation ==
    Prepared =>
        LET self == det[1]
            m == self.ml.matrices[1]
            a == call[1].args
            n == Len(self.df_post.rows)
            drawn == m.index.train_post \o m.index.test
        IN  /\ \A i \in 1..Len(self.df_prior.rows) : m.index.train_prior[i] = i
            /\ Len(m.index.train_prior) = Len(self.df_prior.rows)
            /\ Allocated(self, m.X_train_prior, m.y_train_prior,
                         m.index.train_prior, self.df_prior)
            /\ Allocated(self, m.X_train_post, m.y_train_post,
                         m.index.train_post, self.df_post)
            /\ IF a.test_data.kind = "none"
               THEN /\ Len(m.index.train_post) = (n * a.train_size) \div 100
                    /\ Len(drawn) = n
                    /\ Range(drawn) = 1..n
                    /\ Allocated(self, m.X_test_prior, m.y_test, m.index.test,
                                 self.df_post)
                    /\ Allocated(self, m.X_test_post, m.y_test, m.index.test,
                                 self.df_post)
               ELSE /\ Len(m.index.train_post) = n
                    /\ \A i \in 1..n : m.index.train_post[i] = i
                    /\ Len(m.index.test) = Len(a.test_data.frame[1].rows)
                    /\ \A i \in 1..Len(m.index.test) : m.index.test[i] = i
                    /\ Allocated(self, m.X_test_prior, m.y_test, m.index.test,
                                 a.test_data.frame[1])
                    /\ Allocated(self, m.X_test_post, m.y_test, m.index.test,
                                 a.test_data.frame[1])

\* Three post rows, no test data: the third and the first row are the
\* post-training data and the second row is the evaluation set.
C12_Witness ==
    /\ Prepared
    /\ call[1].args.test_data.kind = "none"
    /\ Len(det[1].df_post.rows) = 3
    /\ det[1].ml.matrices[1].index.train_post = <<3, 1>>
    /\ det[1].ml.matrices[1].index.test = <<2>>
    /\ det[1].ml.matrices[1].y_train_post = <<2000, 1000>>
    /\ det[1].ml.matrices[1].y_test = <<0>>

-----------------------------------------------------------------------------
(* The encoding lists *)

\* The lists _ml_data_prep encodes by: the assigned lists without the target
\* (lines 561-564).
Effective(cols, target) == Range(cols) \ {target}

\* C14: once a call has assigned the two encoding lists, inferred or given
\* by the caller, the columns it one-hot encodes and the columns it encodes
\* as high-cardinality share no column, are together the categorical columns
\* other than the target, a column being one-hot encoded exactly when it has
\* at most cutoff values in prior, and the target is in neither.
C14_EncodingAssignment ==
    (Compared /\ call[1].stage # "assert") =>
        LET self == det[1]
            a == call[1].args
            OHE == Effective(self.ml.OHE_columns[1], a.target_column)
            high == Effective(self.ml.high_cardinality_columns[1], a.target_column)
            categorical == Range(self.categorical_columns) \ {a.target_column}
        IN  /\ OHE \cap high = {}
            /\ OHE \cup high = categorical
            /\ \A c \in categorical :
                  c \in OHE <=> Nunique(self.df_prior, c) <= a.OHE_columns_cutoff
            /\ a.target_column \notin OHE \cup high

-----------------------------------------------------------------------------
(* The high-cardinality encoders *)

\* What fitting an encoder on rows with the targets y keeps of them.
FittedOn(y) == SumSeq(y) \div Len(y)

\* Column c of the matrix X is the encoding, by an encoder that was fitted
\* to fitted, of the rows of df labelled index with the targets y.
EncodedBy(X, y, index, df, c, fitted) ==
    \A r \in 1..Len(index) :
        LET before == {j \in 1..(r - 1) :
                          df.rows[index[j]][c] = df.rows[index[r]][c]}
            total == SumSeq(Tuple([j \in 1..(r - 1) |->
                                      IF j \in before THEN y[j] ELSE 0]))
        IN  X.rows[r][c].n = (total + fitted) \div (Cardinality(before) + 1)

\* The dataset the evaluation rows are rows of.
EvaluationSource ==
    IF call[1].args.test_data.kind = "none" THEN det[1].df_post
    ELSE call[1].args.test_data.frame[1]

\* C15: when _ml_data_prep has returned, every high-cardinality column of
\* the prior model's training and evaluation features is encoded by an
\* encoder fitted on the prior-training rows and their targets and on
\* nothing else, and that of the post model's features by an encoder fitted
\* on the post-training rows and their targets and on nothing else.
C15_SeparateEncoders ==
    (Prepared /\ Len(det[1].ml.matrices[1].y_train_post) > 0) =>
        LET m == det[1].ml.matrices[1]
        IN  \A c \in Effective(det[1].ml.high_cardinality_columns[1],
                                call[1].args.target_column) :
                /\ EncodedBy(m.X_train_prior, m.y_train_prior, m.index.train_prior,
                             det[1].df_prior, c, FittedOn(m.y_train_prior))
                /\ EncodedBy(m.X_test_prior, m.y_test, m.index.test,
                             EvaluationSource, c, FittedOn(m.y_train_prior))
                /\ EncodedBy(m.X_train_post, m.y_train_post, m.index.train_post,
                             det[1].df_post, c, FittedOn(m.y_train_post))
                /\ EncodedBy(m.X_test_post, m.y_test, m.index.test,
                             EvaluationSource, c, FittedOn(m.y_train_post))

\* A call with a high-cardinality column and a non-empty evaluation set,
\* where the targets of prior-training, post-training and evaluation rows
\* have three different means, and the evaluation features of the two
\* models differ.
C15_Witness ==
    /\ Prepared
    /\ Effective(det[1].ml.high_cardinality_columns[1],
                 call[1].args.target_column) # {}
    /\ LET m == det[1].ml.matrices[1]
       IN  /\ Len(m.y_train_post) > 0
           /\ Len(m.y_test) > 0
           /\ FittedOn(m.y_train_prior) # FittedOn(m.y_train_post)
           /\ FittedOn(m.y_test) # FittedOn(m.y_train_post)
           /\ FittedOn(m.y_test) # FittedOn(m.y_train_prior)
           /\ m.X_test_prior # m.X_test_post

-----------------------------------------------------------------------------
(* The roles *)

\* Every value of column c, in both datasets of the detector, is of kind k.
ValuesOfKind(self, c, k) ==
    /\ \A i \in 1..Len(self.df_prior.rows) : self.df_prior.rows[i][c].k = k
    /\ \A i \in 1..Len(self.df_post.rows) : self.df_post.rows[i][c].k = k

\* C16: in a constructed detector, whether the role lists were inferred or
\* given by the caller, no column is both categorical and numeric, every
\* categorical column holds strings and every numeric column holds floats,
\* in both datasets.
C16_RoleExclusivity ==
    det # <<>> =>
        /\ Range(det[1].categorical_columns) \cap Range(det[1].numeric_columns) = {}
        /\ \A c \in Range(det[1].categorical_columns) : ValuesOfKind(det[1], c, "str")
        /\ \A c \in Range(det[1].numeric_columns) : ValuesOfKind(det[1], c, "float")

=============================================================================
